---- MODULE Spec2Model ----
(***************************************************************************)
(* A model of autofunc: the method finder (util/methods.py), the text      *)
(* normalizer (util/text.py), the tool spec builder (toolspec.py) and the  *)
(* OpenAPI converter (spec.py).  Each component has its own specification  *)
(* over the shared variables; the variables of the other components stay   *)
(* at their idle values.                                                   *)
(***************************************************************************)
EXTENDS Integers, Sequences, FiniteSets, TLC

VARIABLES
    \* ---- method finder (util/methods.py) ----
    fs,             \* package name -> sequence of files in os.walk order
    package_names,  \* argument of find_method_in_packages
    method_name,    \* argument: a name, or "*"
    class_name,     \* argument: a name, or None
    expected_num,   \* argument: the limit, -1 for none
    pc,             \* position of the call
    pi,             \* index of the package being looked at
    fi,             \* index of the file being looked at
    pkg_methods,    \* `methods` of _find_methods_in_package
    methods,        \* `methods` of find_method_in_packages
    result,         \* the value returned
    \* ---- text normalizer (util/text.py) ----
    str,            \* a string, as a sequence of characters
    once,           \* normalize_string(str)
    twice,          \* normalize_string(normalize_string(str))
    npc,            \* how many times normalize_string has been applied
    \* ---- tool spec builder (toolspec.py) ----
    name,           \* ToolSpec.name
    description,    \* ToolSpec.description
    param_props,    \* ToolSpec.param_props
    param_required, \* ToolSpec.param_required
    call,           \* the last method called, with its argument
    ncalls,         \* number of calls made on the object
    tpc,            \* "ready", or "raised" when the last call raised
    \* ---- OpenAPI converter (spec.py) ----
    openapi_spec,       \* argument of openapi_to_requests
    functions,          \* the output map being built
    path_i,             \* index of the path being converted
    method_i,           \* index of the method key being converted
    params_common_list, \* the path level parameters carried forward
    apc                 \* position of the call

finderVars == <<fs, package_names, method_name, class_name, expected_num,
                pc, pi, fi, pkg_methods, methods, result>>
normVars == <<str, once, twice, npc>>
toolVars == <<name, description, param_props, param_required, call, ncalls, tpc>>
apiVars == <<openapi_spec, functions, path_i, method_i, params_common_list, apc>>

vars == <<finderVars, normVars, toolVars, apiVars>>

\* The values of a component's variables while another component runs.
FinderIdle ==
    /\ fs = <<>> /\ package_names = <<>> /\ method_name = "" /\ class_name = ""
    /\ expected_num = 0 /\ pc = "idle" /\ pi = 0 /\ fi = 0
    /\ pkg_methods = <<>> /\ methods = <<>> /\ result = <<>>

NormIdle == str = <<>> /\ once = <<>> /\ twice = <<>> /\ npc = "idle"

ToolIdle ==
    /\ name = "" /\ description = "" /\ param_props = <<>> /\ param_required = <<>>
    /\ call = <<>> /\ ncalls = 0 /\ tpc = "idle"

ApiIdle ==
    /\ openapi_spec = <<>> /\ functions = <<>> /\ path_i = 0 /\ method_i = 0
    /\ params_common_list = <<>> /\ apc = "idle"

\* Python's None, where a string is expected.
None == "None"

\* Python truthiness of an optional string.
Truthy(s) == s # None /\ s # ""

(***************************************************************************)
(* Bounds                                                                  *)
(***************************************************************************)
MaxFiles == 3       \* files in the scanned packages, in total
MaxExpected == 2    \* largest positive expected_num
MaxLen == 3         \* longest string normalized
MaxCalls == 2       \* calls made on one ToolSpec
MaxPaths == 2       \* paths of an OpenAPI document
MaxOps == 2         \* operations of an OpenAPI document, in total

(***************************************************************************)
(* Text normalizer (util/text.py).  A string is a sequence of characters;  *)
(* one character stands for each class the two patterns tell apart.        *)
(***************************************************************************)
\* "a", "B": ASCII letters.  "1": an ASCII digit.  "_".  "-", " ": not word
\* characters.  "U+00E9" (e acute): a letter outside ASCII.  "U+0663" (Arabic-
\* Indic three): a decimal digit outside ASCII.
Chars == {"a", "B", "1", "_", "-", " ", "U+00E9", "U+0663"}

\* \d on str patterns: any Unicode decimal digit.
IsDigit(c) == c \in {"1", "U+0663"}

\* \w on str patterns: Unicode letters and digits, and the underscore.
IsWord(c) == c \in {"a", "B", "1", "_", "U+00E9", "U+0663"}

\* [A-Za-z_]
IsAsciiStart(c) == c \in {"a", "B", "_"}

\* re.sub(r"\W|^(?=\d)", "_", name): every non-word character becomes "_", and
\* the empty match at the start of a string that begins with a digit puts "_"
\* in front of that digit.
ReSub(s) ==
    (IF s # <<>> /\ IsDigit(s[1]) THEN <<"_">> ELSE <<>>)
        \o [i \in 1..Len(s) |-> IF IsWord(s[i]) THEN s[i] ELSE "_"]

\* normalize_string with the start test asking for a letter only: [A-Za-z].
normalize_string_letter_start(s) ==
    LET subbed == ReSub(s)
    IN  IF ~(subbed # <<>> /\ subbed[1] \in {"a", "B"})
        THEN <<"_">> \o subbed
        ELSE subbed

\* normalize_string(name)
normalize_string(s) ==
    LET subbed == ReSub(s)
    IN  IF ~(subbed # <<>> /\ IsAsciiStart(subbed[1]))
        THEN <<"_">> \o subbed
        ELSE subbed

(***************************************************************************)
(* Method finder: the source files.  An abstract syntax tree is a function *)
(* from node ids to nodes; ids are numbered top to bottom in the source    *)
(* text, node 1 is the Module, and body lists a node's children in order.  *)
(***************************************************************************)
Node(t, n, b) == [type |-> t, name |-> n, body |-> b]

\* def m(): ...
\* class A:
\*     x = 1
\*     def m(self): ...
\* class B:
\*     def m(self): ...
\*     def n(self): ...
TreeAB ==
    <<Node("Module", "", <<2, 3, 6>>),
      Node("FunctionDef", "m", <<>>),
      Node("ClassDef", "A", <<4, 5>>),
      Node("Assign", "x", <<>>),
      Node("FunctionDef", "m", <<>>),
      Node("ClassDef", "B", <<7, 8>>),
      Node("FunctionDef", "m", <<>>),
      Node("FunctionDef", "n", <<>>)>>

\* class A:
\*     class B:
\*         def m(self): ...
\*     def m(self): ...
\*     def n(self): ...
\* class C:
\*     def m(self):
\*         class A:
\*             def n(self): ...
TreeNested ==
    <<Node("Module", "", <<2, 7>>),
      Node("ClassDef", "A", <<3, 5, 6>>),
      Node("ClassDef", "B", <<4>>),
      Node("FunctionDef", "m", <<>>),
      Node("FunctionDef", "m", <<>>),
      Node("FunctionDef", "n", <<>>),
      Node("ClassDef", "C", <<8>>),
      Node("FunctionDef", "m", <<9>>),
      Node("ClassDef", "A", <<10>>),
      Node("FunctionDef", "n", <<>>)>>

\* The files a package directory may hold.
FileKinds ==
    {[ext |-> ".py", src |-> "ab"],
     [ext |-> ".py", src |-> "nested"],
     [ext |-> ".py", src |-> "malformed"],
     [ext |-> ".txt", src |-> "malformed"]}

\* ast.parse(f.read()): whether it raises SyntaxError / UnicodeDecodeError.
ParseFails(file) == file.src = "malformed"

\* ast.parse(f.read()): the tree of a file that parses.
Parse(file) == IF file.src = "ab" THEN TreeAB ELSE TreeNested

(***************************************************************************)
(* Method finder: _find_methods_in_file                                    *)
(***************************************************************************)
\* ast.walk as a depth-first traversal: a stack instead of a queue.
RECURSIVE WalkDepthFirst(_, _)
WalkDepthFirst(tree, todo) ==
    IF todo = <<>> THEN <<>>
    ELSE <<Head(todo)>> \o WalkDepthFirst(tree, tree[Head(todo)].body \o Tail(todo))

ast_walk_depth_first(tree) == WalkDepthFirst(tree, <<1>>)

\* ast.walk's loop: pop the queue's head, push its children at the end.
RECURSIVE WalkFrom(_, _)
WalkFrom(tree, todo) ==
    IF todo = <<>> THEN <<>>
    ELSE <<Head(todo)>> \o WalkFrom(tree, Tail(todo) \o tree[Head(todo)].body)

\* ast.walk(parsed_content): the nodes in the order they are yielded.
ast_walk(tree) == WalkFrom(tree, <<1>>)

\* `len(methods) >= expected_num != -1`, a chained comparison.
LimitReached(found, limit) == Len(found) >= limit /\ limit # -1

\* FoundMethod(...); func_def is the node object, known by file and node id.
FoundMethod(tree, cls, item, q) ==
    [method_name |-> tree[item].name,
     func_def |-> <<q.file_path, item>>,
     package_name |-> q.package_name,
     class_name |-> tree[cls].name]

\* The filter with the class test dropped.
MatchesAnyClass(tree, cls, item, q) ==
    ~(tree[item].type # "FunctionDef" \/ q.method_name \notin {tree[item].name, "*"})

\* The two `continue` tests of the inner loop, negated.
Matches(tree, cls, item, q) ==
    /\ ~(Truthy(q.class_name) /\ q.class_name # tree[cls].name)
    /\ ~(tree[item].type # "FunctionDef" \/ q.method_name \notin {tree[item].name, "*"})

\* `for item in node.body`: the list so far, and whether the function returned.
RECURSIVE ScanBody(_, _, _, _, _)
ScanBody(tree, cls, items, acc, q) ==
    IF items = <<>> THEN [methods |-> acc, returned |-> FALSE]
    ELSE IF ~Matches(tree, cls, Head(items), q)
         THEN ScanBody(tree, cls, Tail(items), acc, q)
         ELSE LET appended == Append(acc, FoundMethod(tree, cls, Head(items), q))
              IN  IF LimitReached(appended, q.expected_num)
                  THEN [methods |-> appended, returned |-> TRUE]
                  ELSE ScanBody(tree, cls, Tail(items), appended, q)

\* `for node in ast.walk(parsed_content)`.
RECURSIVE ScanNodes(_, _, _, _)
ScanNodes(tree, nodes, acc, q) ==
    IF nodes = <<>> THEN acc
    ELSE IF tree[Head(nodes)].type # "ClassDef"
         THEN ScanNodes(tree, Tail(nodes), acc, q)
         ELSE LET r == ScanBody(tree, Head(nodes), tree[Head(nodes)].body, acc, q)
              IN  IF r.returned THEN r.methods
                  ELSE ScanNodes(tree, Tail(nodes), r.methods, q)

\* _find_methods_in_file: a list, or None after a parse error.
find_methods_in_file(file, q) ==
    IF ParseFails(file)
    THEN [none |-> TRUE, val |-> <<>>]
    ELSE [none |-> FALSE,
          val |-> ScanNodes(Parse(file), ast_walk(Parse(file)), <<>>, q)]

(***************************************************************************)
(* Method finder: find_method_in_packages and _find_methods_in_package     *)
(***************************************************************************)
SeqsUpTo(S, n) == UNION {[1..k -> S] : k \in 0..n}

\* The package lists tried; "nopkg" is not installed.
PackageLists == {<<"p1">>, <<"p1", "p2">>, <<"p1", "nopkg", "p2">>}

MethodNames == {"m", "*"}
ClassNames == {None, "A"}
ExpectedNums == {-1} \cup (1..MaxExpected)

\* importlib.util.find_spec(package_name) is not None
Installed(p) == p \in DOMAIN fs

\* The arguments handed down to _find_methods_in_file.
Query(p, i) ==
    [file_path |-> <<p, i>>, package_name |-> p, method_name |-> method_name,
     class_name |-> class_name, expected_num |-> expected_num]

FinderInit ==
    /\ \E files \in SeqsUpTo(FileKinds, MaxFiles), cut \in 0..MaxFiles :
          /\ cut <= Len(files)
          /\ fs = [p \in {"p1", "p2"} |->
                     IF p = "p1" THEN SubSeq(files, 1, cut)
                     ELSE SubSeq(files, cut + 1, Len(files))]
    /\ package_names \in PackageLists
    /\ "p2" \notin {package_names[i] : i \in DOMAIN package_names} => fs["p2"] = <<>>
    /\ method_name \in MethodNames
    /\ class_name \in ClassNames
    /\ expected_num \in ExpectedNums
    /\ pc = "packages"
    /\ pi = 1
    /\ fi = 0
    /\ pkg_methods = <<>>
    /\ methods = <<>>
    /\ result = <<>>
    /\ NormIdle /\ ToolIdle /\ ApiIdle

\* find_spec returned None: log and continue with the next package.
SkipPackage ==
    /\ pc = "packages"
    /\ pi <= Len(package_names)
    /\ ~Installed(package_names[pi])
    /\ pi' = pi + 1
    /\ UNCHANGED <<fs, package_names, method_name, class_name, expected_num,
                   pc, fi, pkg_methods, methods, result>>
    /\ UNCHANGED <<normVars, toolVars, apiVars>>

\* The call of _find_methods_in_package: its `methods = []` and the walk begins.
EnterPackage ==
    /\ pc = "packages"
    /\ pi <= Len(package_names)
    /\ Installed(package_names[pi])
    /\ pc' = "files"
    /\ fi' = 1
    /\ pkg_methods' = <<>>
    /\ UNCHANGED <<fs, package_names, method_name, class_name, expected_num,
                   pi, methods, result>>
    /\ UNCHANGED <<normVars, toolVars, apiVars>>

\* `methods += _find_methods_in_package(...)` and the test that follows it.
ReturnToCaller(found) ==
    /\ methods' = methods \o found
    /\ pkg_methods' = <<>>
    /\ fi' = 0
    /\ IF LimitReached(methods', expected_num)
       THEN /\ pc' = "returned"
            /\ result' = methods'
            /\ pi' = pi
       ELSE /\ pc' = "packages"
            /\ result' = result
            /\ pi' = pi + 1

\* A file whose name does not end in ".py".
SkipFile ==
    /\ pc = "files"
    /\ fi <= Len(fs[package_names[pi]])
    /\ fs[package_names[pi]][fi].ext # ".py"
    /\ fi' = fi + 1
    /\ UNCHANGED <<fs, package_names, method_name, class_name, expected_num,
                   pc, pi, pkg_methods, methods, result>>
    /\ UNCHANGED <<normVars, toolVars, apiVars>>

\* `methods += _find_methods_in_file(...)` with a list, and the test after it.
ScanFile ==
    /\ pc = "files"
    /\ fi <= Len(fs[package_names[pi]])
    /\ fs[package_names[pi]][fi].ext = ".py"
    /\ LET r == find_methods_in_file(fs[package_names[pi]][fi],
                                     Query(package_names[pi], fi))
           found == pkg_methods \o r.val
       IN  /\ ~r.none
           /\ IF LimitReached(found, expected_num)
              THEN ReturnToCaller(found)
              ELSE /\ pkg_methods' = found
                   /\ fi' = fi + 1
                   /\ UNCHANGED <<pc, pi, methods, result>>
    /\ UNCHANGED <<fs, package_names, method_name, class_name, expected_num>>
    /\ UNCHANGED <<normVars, toolVars, apiVars>>

\* `methods += None`: TypeError, which nothing catches.
ScanFileRaises ==
    /\ pc = "files"
    /\ fi <= Len(fs[package_names[pi]])
    /\ fs[package_names[pi]][fi].ext = ".py"
    /\ find_methods_in_file(fs[package_names[pi]][fi],
                            Query(package_names[pi], fi)).none
    /\ pc' = "raised"
    /\ UNCHANGED <<fs, package_names, method_name, class_name, expected_num,
                   pi, fi, pkg_methods, methods, result>>
    /\ UNCHANGED <<normVars, toolVars, apiVars>>

\* os.walk is exhausted: _find_methods_in_package returns its list.
LeavePackage ==
    /\ pc = "files"
    /\ fi > Len(fs[package_names[pi]])
    /\ ReturnToCaller(pkg_methods)
    /\ UNCHANGED <<fs, package_names, method_name, class_name, expected_num>>
    /\ UNCHANGED <<normVars, toolVars, apiVars>>

\* The packages are exhausted: log if nothing was found, and return.
ReturnMethods ==
    /\ pc = "packages"
    /\ pi > Len(package_names)
    /\ pc' = "returned"
    /\ result' = methods
    /\ UNCHANGED <<fs, package_names, method_name, class_name, expected_num,
                   pi, fi, pkg_methods, methods>>
    /\ UNCHANGED <<normVars, toolVars, apiVars>>

FinderNext ==
    \/ SkipPackage
    \/ EnterPackage
    \/ SkipFile
    \/ ScanFile
    \/ ScanFileRaises
    \/ LeavePackage
    \/ ReturnMethods

SpecFinder == FinderInit /\ [][FinderNext]_vars

(***************************************************************************)
(* Method finder: what the claims speak of                                 *)
(***************************************************************************)
Range(f) == {f[i] : i \in DOMAIN f}

\* The position of an installed package in package_names (names are distinct).
PackagePos(p) == CHOOSE i \in DOMAIN package_names : package_names[i] = p

\* The class definition a node is a direct child of.
Parent(tree, n) == CHOOSE c \in DOMAIN tree : n \in Range(tree[c].body)

\* The nesting depth of a node in its tree: 0 for the Module.
RECURSIVE Depth(_, _)
Depth(tree, n) == IF n = 1 THEN 0 ELSE 1 + Depth(tree, Parent(tree, n))

\* The .py files of the installed packages named, as <<package, index>>.
ScannedFiles ==
    {<<p, i>> \in (Range(package_names) \cap DOMAIN fs) \X (1..MaxFiles + 1) :
        i <= Len(fs[p]) /\ fs[p][i].ext = ".py"}

TreeOf(path) == Parse(fs[path[1]][path[2]])

\* Every (class definition, function definition directly in its body) pair of
\* a parseable scanned file that passes the two filters, as the entry expected.
MatchingEntries ==
    UNION {
        LET tree == TreeOf(path) IN
        {[method_name |-> tree[f].name, func_def |-> <<path, f>>,
          package_name |-> path[1], class_name |-> tree[c].name] :
            <<c, f>> \in {<<c, f>> \in (DOMAIN tree) \X (DOMAIN tree) :
                /\ tree[c].type = "ClassDef"
                /\ tree[f].type = "FunctionDef"
                /\ f \in Range(tree[c].body)
                /\ class_name \in {None, tree[c].name}
                /\ method_name \in {"*", tree[f].name}}}
        : path \in {q \in ScannedFiles : ~ParseFails(fs[q[1]][q[2]])}}

NoDuplicates(s) == \A i, j \in DOMAIN s : i # j => s[i] # s[j]

\* Lexicographic order on tuples of integers of equal length.
RECURSIVE LexLess(_, _)
LexLess(a, b) ==
    /\ a # <<>>
    /\ \/ Head(a) < Head(b)
       \/ Head(a) = Head(b) /\ LexLess(Tail(a), Tail(b))

\* Package order, file traversal order, then the line of the method.
SourceKey(e) == <<PackagePos(e.package_name), e.func_def[1][2], e.func_def[2]>>

\* Package order, file traversal order, then the class's depth, the line of
\* the class and the line of the method.
WalkKey(e) ==
    LET tree == TreeOf(e.func_def[1])
        cls == Parent(tree, e.func_def[2])
    IN  <<PackagePos(e.package_name), e.func_def[1][2],
          Depth(tree, cls), cls, e.func_def[2]>>

\* C1: for max_results >= 1, find_method_in_packages returns at most
\* max_results entries.
C1_AtMostMaxResults ==
    (pc = "returned" /\ expected_num >= 1) => Len(result) <= expected_num

\* C2: a file that fails to parse is only skipped: the call does not abort,
\* and with no limit the matches of all other files are returned.
C2_OnlyTheBadFileIsSkipped ==
    /\ pc # "raised"
    /\ (pc = "returned" /\ expected_num = -1 /\
        \E q \in ScannedFiles : ParseFails(fs[q[1]][q[2]]))
          => Range(result) = MatchingEntries

\* C4: with max_results = -1 and all files parseable, the result holds exactly
\* one entry for each matching (class, direct child function) pair, and no other.
C4_ExactlyTheMatchingPairs ==
    (pc = "returned" /\ expected_num = -1)
        => /\ NoDuplicates(result)
           /\ Range(result) = MatchingEntries

\* C4, reached: classes A and B each with a method m, found as 2 entries; and
\* a file with nested classes scanned as well.
C4_Witness ==
    /\ pc = "returned" /\ expected_num = -1
    /\ method_name = "m" /\ class_name = None
    /\ package_names = <<"p1", "p2">>
    /\ fs["p1"] = <<[ext |-> ".py", src |-> "ab"]>>
    /\ fs["p2"] = <<[ext |-> ".py", src |-> "nested"]>>
    /\ Len(SelectSeq(result, LAMBDA e : e.package_name = "p1")) = 2
    /\ {e.class_name : e \in {x \in Range(result) : x.package_name = "p1"}} = {"A", "B"}
    /\ Len(result) = 5

\* C5 as stated: the result is ordered by package, file, and top-to-bottom
\* source position of the method, nested classes included.
C5_SourceOrder ==
    pc = "returned" =>
        \A i, j \in DOMAIN result :
            i < j => LexLess(SourceKey(result[i]), SourceKey(result[j]))

\* C5 amended: the result is ordered by package, file, and within a file by the
\* breadth-first order of the classes (depth, then source position), the
\* methods of one class top to bottom.
C5_WalkOrder ==
    pc = "returned" =>
        \A i, j \in DOMAIN result :
            i < j => LexLess(WalkKey(result[i]), WalkKey(result[j]))

\* C5, reached: a method of a nested class returned after a method that stands
\* below it in the same file, and entries of two files and two packages.
C5_Witness ==
    /\ pc = "returned"
    /\ \E i, j \in DOMAIN result :
          /\ i < j
          /\ result[i].func_def[1] = result[j].func_def[1]
          /\ result[i].func_def[2] > result[j].func_def[2]
    /\ \E i, j \in DOMAIN result : result[i].package_name # result[j].package_name
    /\ \E i, j \in DOMAIN result :
          /\ result[i].package_name = result[j].package_name
          /\ result[i].func_def[1] # result[j].func_def[1]

(***************************************************************************)
(* Text normalizer: normalize_string applied once, and again to its result *)
(***************************************************************************)
NormInit ==
    /\ str \in UNION {[1..k -> Chars] : k \in 0..MaxLen}
    /\ once = <<>>
    /\ twice = <<>>
    /\ npc = "input"
    /\ FinderIdle /\ ToolIdle /\ ApiIdle

\* once = normalize_string(str)
Normalize ==
    /\ npc = "input"
    /\ once' = normalize_string(str)
    /\ npc' = "once"
    /\ UNCHANGED <<str, twice>>
    /\ UNCHANGED <<finderVars, toolVars, apiVars>>

\* twice = normalize_string(once)
NormalizeAgain ==
    /\ npc = "once"
    /\ twice' = normalize_string(once)
    /\ npc' = "twice"
    /\ UNCHANGED <<str, once>>
    /\ UNCHANGED <<finderVars, toolVars, apiVars>>

NormNext == Normalize \/ NormalizeAgain

SpecNormalize == NormInit /\ [][NormNext]_vars

\* C6: normalize_string is idempotent: normalizing a normalized string returns
\* it unchanged, for every string, the empty one included.
C6_Idempotent == npc = "twice" => twice = once

\* C6, reached: a string that starts with a digit and holds a non-ASCII letter
\* and a non-word character was changed by the first pass and kept by the second.
C6_Witness ==
    /\ npc = "twice"
    /\ str = <<"1", "U+00E9", "-">>
    /\ once = <<"_", "1", "U+00E9", "_">>
    /\ twice = once

\* C6, reached: the empty string.
C6_WitnessEmpty == npc = "twice" /\ str = <<>> /\ once = <<"_">> /\ twice = <<"_">>

(***************************************************************************)
(* Tool spec builder (toolspec.py).  A dict that the code iterates is a    *)
(* sequence of <<key, value>> pairs in insertion order; a dict that is     *)
(* only read by key is a function.  A JSON value carries its Python type.  *)
(***************************************************************************)
JDict(v) == [t |-> "dict", v |-> v]
JList(v) == [t |-> "list", v |-> v]
JStr(v) == [t |-> "str", v |-> v]

\* k in d, for an ordered dict.
HasKey(d, k) == \E i \in DOMAIN d : d[i][1] = k

\* d.get(k, default), for an ordered dict.
DGet(d, k, default) ==
    IF HasKey(d, k) THEN d[CHOOSE i \in DOMAIN d : d[i][1] = k][2] ELSE default

\* r.get(k, default), for a dict read by key.
RGet(r, k, default) == IF k \in DOMAIN r THEN r[k] ELSE default

\* d[k] = v
DictSet(d, k, v) == [x \in DOMAIN d \cup {k} |-> IF x = k THEN v ELSE d[x]]

\* needle in hay, for strings as sequences of characters.
Contains(hay, needle) ==
    \E i \in 0..(Len(hay) - Len(needle)) :
        SubSeq(hay, i + 1, i + Len(needle)) = needle

Optional == <<"o", "p", "t", "i", "o", "n", "a", "l">>

\* Description texts: "the key", "key, optional", "Optional key".
DescPlain == <<"t", "h", "e", " ", "k", "e", "y">>
DescOptional == <<"k", "e", "y", ",", " ">> \o Optional
DescCapital == <<"O", "p", "t", "i", "o", "n", "a", "l", " ", "k", "e", "y">>

ParamNames == {"a", "b"}

\* What docstring_parser.parse yields for one parameter: is_optional is True,
\* False or None, the description a text.
DocParams ==
    {[arg_name |-> n, type_name |-> "int", description |-> od[2], is_optional |-> od[1]] :
        n \in ParamNames,
        od \in {<<"False", DescPlain>>, <<"None", DescPlain>>, <<"True", DescPlain>>,
                <<"None", DescOptional>>, <<"False", DescCapital>>,
                <<"True", DescOptional>>}}

\* parse(docstring): the long description and the parameters declared, each
\* name once.
Docstrings ==
    {[long_description |-> "does g", params |-> ps] :
        ps \in {q \in UNION {[1..k -> DocParams] : k \in 0..Cardinality(ParamNames)} :
                  \A i, j \in DOMAIN q : i # j => q[i].arg_name # q[j].arg_name}}

\* The loop of create_from_docstring with the two tests joined by `or`.
RECURSIVE DocLoopEitherTest(_, _, _)
DocLoopEitherTest(params, props, required) ==
    IF params = <<>> THEN [props |-> props, required |-> required]
    ELSE LET param == Head(params)
             param_obj == [type |-> param.type_name, description |-> param.description]
         IN  DocLoopEitherTest(Tail(params),
                     DictSet(props, param.arg_name, param_obj),
                     IF param.is_optional # "True" \/ ~Contains(param.description, Optional)
                     THEN Append(required, param.arg_name)
                     ELSE required)

\* The loop of create_from_docstring with the parameter not recorded.
RECURSIVE DocLoopNoProps(_, _, _)
DocLoopNoProps(params, props, required) ==
    IF params = <<>> THEN [props |-> props, required |-> required]
    ELSE LET param == Head(params)
         IN  DocLoopNoProps(Tail(params), props,
                     IF param.is_optional # "True" /\ ~Contains(param.description, Optional)
                     THEN Append(required, param.arg_name)
                     ELSE required)

\* `for param in doc_dict.params`: the parameter is recorded, and required
\* unless it is optional or its description says so.
RECURSIVE DocLoop(_, _, _)
DocLoop(params, props, required) ==
    IF params = <<>> THEN [props |-> props, required |-> required]
    ELSE LET param == Head(params)
             param_obj == [type |-> param.type_name, description |-> param.description]
         IN  DocLoop(Tail(params),
                     DictSet(props, param.arg_name, param_obj),
                     IF param.is_optional # "True" /\ ~Contains(param.description, Optional)
                     THEN Append(required, param.arg_name)
                     ELSE required)

\* The parameter details of a function spec: no field, a type, or both fields.
Details ==
    {JDict(<<>>), JDict([type |-> "int"]),
     JDict([type |-> "int", description |-> <<"d">>])}

\* Properties maps: "a" with any details or absent, "b" without fields or absent.
PropMaps ==
    {pa \o pb :
        pa \in {<<>>} \cup {<<<<"a", d>>>> : d \in Details},
        pb \in {<<>>, <<<<"b", JDict(<<>>)>>>>}}

\* The "required" entry of parameters: absent, or one of these lists.
RequiredEntries ==
    {<<>>} \cup {<<<<"required", JList(l)>>>> : l \in {<<>>, <<"a">>, <<"b", "a">>}}

\* The "parameters" of a function spec: with the "properties" layer, or the
\* parameters themselves at the top (with or without a "type" entry).
ParametersDicts ==
    {<<<<"type", JStr("object")>>, <<"properties", JDict(pm)>>>> \o req :
        pm \in PropMaps, req \in RequiredEntries}
    \cup {pm \o req : pm \in PropMaps, req \in RequiredEntries}
    \cup {<<<<"type", JStr("object")>>, <<"a", JDict([type |-> "int"])>>>>}

BareSpecs ==
    {[name |-> "f", description |-> "does f"]}
    \cup {[name |-> "f", description |-> "does f", parameters |-> ps] :
            ps \in ParametersDicts}
    \cup {[name |-> "f", parameters |-> <<<<"a", JDict([type |-> "int"])>>>>]}

\* The arguments of create_from_schema_json: bare, or under "function".
FunctionSpecs ==
    BareSpecs \cup {[type |-> "function", function |-> b] : b \in BareSpecs}

\* Lines 63-64: the spec under "function" when type is "function".
Unwrap(function_spec) ==
    IF "type" \in DOMAIN function_spec /\ function_spec.type = "function"
    THEN function_spec.function
    ELSE function_spec

\* params.get("properties", params)
PropsOf(params) ==
    IF HasKey(params, "properties") THEN DGet(params, "properties", <<>>).v ELSE params

\* `for param_name, param_details in param_props.items()`: param_details.get
\* raises AttributeError when the value is not a dict.
RECURSIVE SchemaLoop(_, _)
SchemaLoop(items, props) ==
    IF items = <<>> THEN [props |-> props, raised |-> FALSE]
    ELSE LET param_name == Head(items)[1]
             param_details == Head(items)[2]
         IN  IF param_details.t # "dict"
             THEN [props |-> props, raised |-> TRUE]
             ELSE SchemaLoop(Tail(items),
                      DictSet(props, param_name,
                          [type |-> RGet(param_details.v, "type", "string"),
                           description |-> RGet(param_details.v, "description", <<>>)]))

\* The spec returned by get_spec_dict.
SpecDict(function_tag) ==
    LET spec == [name |-> name, description |-> description,
                 parameters |-> [type |-> "object", properties |-> param_props,
                                 required |-> param_required]]
    IN  IF function_tag THEN [type |-> "function", function |-> spec] ELSE spec

ToolInit ==
    /\ name = ""
    /\ description = ""
    /\ param_props = <<>>
    /\ param_required = <<>>
    /\ call = [op |-> "__init__"]
    /\ ncalls = 0
    /\ tpc = "ready"
    /\ FinderIdle /\ NormIdle /\ ApiIdle

\* ToolSpec.create_from_docstring(name, docstring)
create_from_docstring ==
    /\ ncalls < MaxCalls
    /\ \E doc_dict \in Docstrings :
          LET r == DocLoop(doc_dict.params, param_props, param_required)
          IN  /\ name' = "g"
              /\ description' = doc_dict.long_description
              /\ param_props' = r.props
              /\ param_required' = r.required
              /\ call' = [op |-> "create_from_docstring", arg |-> doc_dict]
    /\ tpc' = "ready"
    /\ ncalls' = ncalls + 1
    /\ UNCHANGED <<finderVars, normVars, apiVars>>

\* ToolSpec.create_from_schema_json(function_spec)
create_from_schema_json ==
    /\ ncalls < MaxCalls
    /\ \E arg \in FunctionSpecs :
          LET function_spec == Unwrap(arg)
              params == RGet(function_spec, "parameters", <<>>)
              r == SchemaLoop(PropsOf(params), param_props)
          IN  /\ name' = RGet(function_spec, "name", "")
              /\ description' = RGet(function_spec, "description", "")
              /\ param_props' = r.props
              /\ param_required' = IF r.raised THEN param_required
                                   ELSE DGet(params, "required", JList(<<>>)).v
              /\ tpc' = IF r.raised THEN "raised" ELSE "ready"
              /\ call' = [op |-> "create_from_schema_json", arg |-> arg]
    /\ ncalls' = ncalls + 1
    /\ UNCHANGED <<finderVars, normVars, apiVars>>

\* ToolSpec.get_spec_dict(function_tag)
get_spec_dict ==
    /\ ncalls < MaxCalls
    /\ \E function_tag \in BOOLEAN :
          call' = [op |-> "get_spec_dict", arg |-> function_tag,
                   ret |-> SpecDict(function_tag)]
    /\ param_props' = IF param_props = <<>> THEN <<>> ELSE param_props
    /\ tpc' = "ready"
    /\ ncalls' = ncalls + 1
    /\ UNCHANGED <<name, description, param_required>>
    /\ UNCHANGED <<finderVars, normVars, apiVars>>

ToolNext == create_from_docstring \/ create_from_schema_json \/ get_spec_dict

SpecToolSpec == ToolInit /\ [][ToolNext]_vars

(***************************************************************************)
(* Tool spec builder: what the claims speak of                             *)
(***************************************************************************)
Keys(d) == {d[i][1] : i \in DOMAIN d}

RequiredInProps == Range(param_required) \subseteq DOMAIN param_props

\* The "parameters" of the function spec a create_from_schema_json call got.
GivenParameters(c) == RGet(Unwrap(c.arg), "parameters", <<>>)

\* The caller of create_from_schema_json named in "required" only keys of the
\* properties map of the same spec.
CallerKeptRequired(c) ==
    c.op = "create_from_schema_json" =>
        Range(DGet(GivenParameters(c), "required", JList(<<>>)).v)
            \subseteq Keys(PropsOf(GivenParameters(c)))

\* C7 as stated: after any sequence of calls on a default ToolSpec, every name
\* in param_required is a key of param_props.
C7_RequiredAlwaysInProps == tpc # "idle" => RequiredInProps

\* C7 amended: a default ToolSpec has every required name among its properties,
\* and every call keeps it so, provided that a create_from_schema_json call is
\* given a required list naming only keys of its own properties map.
C7_RequiredInPropsIfCallerKeeps ==
    /\ (ncalls = 0 => RequiredInProps)
    /\ [][(RequiredInProps /\ CallerKeptRequired(call')) => RequiredInProps']_vars

\* C7, reached: a docstring call that recorded "b", then a schema call that
\* recorded "a" and named it in its required list.
C7_Witness ==
    /\ ncalls = 2 /\ tpc = "ready"
    /\ call.op = "create_from_schema_json"
    /\ CallerKeptRequired(call)
    /\ param_required = <<"a">>
    /\ RequiredInProps
    /\ param_props["a"].type = "int"
    /\ "b" \in DOMAIN param_props /\ param_props["b"].description = DescPlain

\* C8: create_from_docstring on a fresh ToolSpec records every declared
\* parameter in param_props, and a parameter is in param_required if and only if
\* it is not marked optional and "optional" is not in its description.
C8_RequiredUnlessOptional ==
    (ncalls = 1 /\ call.op = "create_from_docstring") =>
        /\ tpc = "ready"
        /\ DOMAIN param_props = {p.arg_name : p \in Range(call.arg.params)}
        /\ \A p \in Range(call.arg.params) :
              /\ param_props[p.arg_name] =
                    [type |-> p.type_name, description |-> p.description]
              /\ (p.arg_name \in Range(param_required))
                    <=> (/\ p.is_optional # "True"
                         /\ ~Contains(p.description, Optional))

\* C8, reached: "a" plainly described and required, "b" with "optional" in its
\* description, recorded but not required.
C8_Witness ==
    /\ ncalls = 1 /\ call.op = "create_from_docstring"
    /\ Len(call.arg.params) = 2
    /\ call.arg.params[1].arg_name = "a"
    /\ call.arg.params[2] = [arg_name |-> "b", type_name |-> "int",
                             description |-> DescOptional, is_optional |-> "None"]
    /\ param_required = <<"a">>
    /\ DOMAIN param_props = {"a", "b"}

\* C10: create_from_schema_json on a fresh ToolSpec, given parameters without a
\* "properties" key, succeeds, records one entry per key of parameters with the
\* declared or default type and description, and takes the required list given,
\* or the empty one.
C10_FlatParametersAccepted ==
    (/\ ncalls = 1
     /\ call.op = "create_from_schema_json"
     /\ "parameters" \in DOMAIN Unwrap(call.arg)
     /\ ~HasKey(GivenParameters(call), "properties")) =>
        /\ tpc = "ready"
        /\ DOMAIN param_props = Keys(GivenParameters(call))
        /\ \A i \in DOMAIN GivenParameters(call) :
              LET item == GivenParameters(call)[i]
              IN  param_props[item[1]] =
                      [type |-> RGet(item[2].v, "type", "string"),
                       description |-> RGet(item[2].v, "description", <<>>)]
        /\ param_required = DGet(GivenParameters(call), "required", JList(<<>>)).v

(***************************************************************************)
(* OpenAPI converter (spec.py).  openapi_spec["paths"] and each path's     *)
(* dict are iterated, so they are sequences of <<key, value>> pairs; an    *)
(* operation and a parameter are dicts read by key.  The documents hold no *)
(* $ref (jsonref.replace_refs returns them as they are) and no requestBody *)
(* (so "data" is the empty dict).                                          *)
(***************************************************************************)
\* {**a, **b}
MergeDict(a, b) ==
    [k \in DOMAIN a \cup DOMAIN b |-> IF k \in DOMAIN b THEN b[k] ELSE a[k]]

\* Parameters as OpenAPI declares them.
HdrKey == [name |-> "X-Key", in |-> "header", type |-> "string"]
HdrKeyInt ==
    [name |-> "X-Key", in |-> "header", schema |-> [type |-> "integer"],
     description |-> "key"]
QryQ == [name |-> "q", in |-> "query", schema |-> [type |-> "string"]]
QryLimit == [name |-> "limit", in |-> "query", type |-> "integer"]
PathId == [name |-> "id", in |-> "path", type |-> "string"]

\* The value of a path's "parameters" key.
CommonList == <<HdrKey, QryQ>>

\* operationId texts over Chars: "a a", "a_a" and "B".
OperationIds == {<<"a", " ", "a">>, <<"a", "_", "a">>, <<"B">>}

\* The operation objects a method key may hold: with or without operationId;
\* a get declares parameters of its own, a post none.
OperationsOf(method) ==
    {MergeDict(MergeDict([summary |-> "s"], id),
               IF method = "get"
               THEN [parameters |-> <<HdrKeyInt, PathId, QryLimit>>]
               ELSE <<>>) :
        id \in {<<>>} \cup {[operationId |-> i] : i \in OperationIds}}

MethodKeys == {"parameters", "get", "post"}

\* The orders in which a path's dict may hold its keys.
KeySeqs ==
    {ks \in UNION {[1..k -> MethodKeys] : k \in 0..Cardinality(MethodKeys)} :
        \A i, j \in DOMAIN ks : i # j => ks[i] # ks[j]}

\* The dicts with their keys in the order ks.
RECURSIVE ItemsFor(_)
ItemsFor(ks) ==
    IF ks = <<>> THEN {<<>>}
    ELSE {<<<<Head(ks), v>>>> \o rest :
            v \in (IF Head(ks) = "parameters" THEN {CommonList}
                   ELSE OperationsOf(Head(ks))),
            rest \in ItemsFor(Tail(ks))}

PathMethods == UNION {ItemsFor(ks) : ks \in KeySeqs}

OpCount(path_methods) ==
    Cardinality({i \in DOMAIN path_methods : path_methods[i][1] # "parameters"})

\* The "paths" of the documents: at most np paths and nops operations.
RECURSIVE PathsUpTo(_, _)
PathsUpTo(np, nops) ==
    {<<>>} \cup
    (IF np = 0 THEN {}
     ELSE UNION {{<<pm>> \o rest : rest \in PathsUpTo(np - 1, nops - OpCount(pm))} :
                    pm \in {x \in PathMethods : OpCount(x) <= nops}})

\* The path template of the i-th path.
PathName(i) == <<"/path", i>>

\* The documents converted: one server, and at most np paths and nops operations.
Documents(np, nops) ==
    {[servers |-> <<[url |-> "https://api.example.com"]>>,
      paths |-> [i \in DOMAIN ps |-> <<PathName(i), ps[i]>>]] :
        ps \in PathsUpTo(np, nops)}

\* method.upper()
Upper(method) == IF method = "get" THEN "GET" ELSE "POST"

\* The schema of one parameter (lines 62-69): its "schema", or its type, and
\* over it every other field but name, in and schema.
ParamSchema(param) ==
    MergeDict(IF "schema" \in DOMAIN param THEN param.schema ELSE [type |-> param.type],
              [k \in DOMAIN param \ {"name", "in", "schema"} |-> param[k]])

\* The list the comprehensions run over, without the path level parameters.
OwnParams(common, spec) == RGet(spec, "parameters", <<>>)

\* params_common_list + spec.get("parameters", [])
AllParams(common, spec) == common \o RGet(spec, "parameters", <<>>)

\* {param["name"]: {...} for param in ... if param["in"] == location}
RECURSIVE ParamDict(_, _, _)
ParamDict(params, location, acc) ==
    IF params = <<>> THEN acc
    ELSE ParamDict(Tail(params), location,
                   IF Head(params).in = location
                   THEN DictSet(acc, Head(params).name, ParamSchema(Head(params)))
                   ELSE acc)

\* The function built for one operation (lines 47-97).
Function(path, method, spec, common) ==
    [name |-> <<"requests", method>>,
     description |-> <<"Sends a ", Upper(method), " request to the specified URL.">>,
     parameters |->
        [type |-> "dict",
         properties |->
            [url |-> [type |-> "string",
                      description |-> <<RGet(spec, "summary", ""), ". ",
                                        RGet(spec, "description", "")>>,
                      enum |-> [i \in DOMAIN openapi_spec.servers |->
                                   <<openapi_spec.servers[i].url, path>>],
                      required |-> TRUE],
             headers |-> ParamDict(AllParams(common, spec), "header", <<>>),
             timeout |-> [type |-> <<"number", "tuple">>, required |-> FALSE],
             params |-> ParamDict(AllParams(common, spec), "query", <<>>),
             data |-> <<>>]]]

\* The path being converted, and the entry of its dict that is next.
CurrentPath == openapi_spec.paths[path_i]
CurrentItem == CurrentPath[2][method_i]

ApiInit ==
    /\ openapi_spec \in Documents(MaxPaths, MaxOps)
    /\ functions = <<>>
    /\ path_i = 1
    /\ method_i = 0
    /\ params_common_list = <<>>
    /\ apc = "paths"
    /\ FinderIdle /\ NormIdle /\ ToolIdle

\* `for path, path_methods in ...`: the next path; params_common_list = [].
NextPath ==
    /\ apc = "paths"
    /\ path_i <= Len(openapi_spec.paths)
    /\ params_common_list' = <<>>
    /\ method_i' = 1
    /\ apc' = "methods"
    /\ UNCHANGED <<openapi_spec, functions, path_i>>
    /\ UNCHANGED <<finderVars, normVars, toolVars>>

\* method == "parameters": keep the list and continue.
CommonParameters ==
    /\ apc = "methods"
    /\ method_i <= Len(CurrentPath[2])
    /\ CurrentItem[1] = "parameters"
    /\ params_common_list' = CurrentItem[2]
    /\ method_i' = method_i + 1
    /\ UNCHANGED <<openapi_spec, functions, path_i, apc>>
    /\ UNCHANGED <<finderVars, normVars, toolVars>>

\* An operation with an operationId: its function is stored under the
\* normalized operationId.
ConvertOperation ==
    /\ apc = "methods"
    /\ method_i <= Len(CurrentPath[2])
    /\ CurrentItem[1] # "parameters"
    /\ "operationId" \in DOMAIN CurrentItem[2]
    /\ functions' = DictSet(functions, normalize_string(CurrentItem[2].operationId),
                            Function(CurrentPath[1], CurrentItem[1], CurrentItem[2],
                                     params_common_list))
    /\ method_i' = method_i + 1
    /\ UNCHANGED <<openapi_spec, path_i, params_common_list, apc>>
    /\ UNCHANGED <<finderVars, normVars, toolVars>>

\* An operation without operationId: spec.get("operationId") is None and
\* re.sub raises TypeError in normalize_string, which nothing catches.
ConvertRaises ==
    /\ apc = "methods"
    /\ method_i <= Len(CurrentPath[2])
    /\ CurrentItem[1] # "parameters"
    /\ "operationId" \notin DOMAIN CurrentItem[2]
    /\ apc' = "raised"
    /\ UNCHANGED <<openapi_spec, functions, path_i, method_i, params_common_list>>
    /\ UNCHANGED <<finderVars, normVars, toolVars>>

\* The path's dict is exhausted.
EndPath ==
    /\ apc = "methods"
    /\ method_i > Len(CurrentPath[2])
    /\ path_i' = path_i + 1
    /\ apc' = "paths"
    /\ UNCHANGED <<openapi_spec, functions, method_i, params_common_list>>
    /\ UNCHANGED <<finderVars, normVars, toolVars>>

\* return functions
ReturnFunctions ==
    /\ apc = "paths"
    /\ path_i > Len(openapi_spec.paths)
    /\ apc' = "returned"
    /\ UNCHANGED <<openapi_spec, functions, path_i, method_i, params_common_list>>
    /\ UNCHANGED <<finderVars, normVars, toolVars>>

ApiNext ==
    \/ NextPath
    \/ CommonParameters
    \/ ConvertOperation
    \/ ConvertRaises
    \/ EndPath
    \/ ReturnFunctions

SpecOpenapi == ApiInit /\ [][ApiNext]_vars

(***************************************************************************)
(* OpenAPI converter: what the claims speak of                             *)
(***************************************************************************)
\* The operations of the document, as <<path index, index in the path's dict>>.
OpPositions ==
    UNION {{<<p, m>> : m \in {i \in DOMAIN openapi_spec.paths[p][2] :
                                openapi_spec.paths[p][2][i][1] # "parameters"}} :
            p \in DOMAIN openapi_spec.paths}

OpMethod(o) == openapi_spec.paths[o[1]][2][o[2]][1]
OpSpec(o) == openapi_spec.paths[o[1]][2][o[2]][2]
HasId(o) == "operationId" \in DOMAIN OpSpec(o)

\* The key an operation is stored under.
OpKey(o) == normalize_string(OpSpec(o).operationId)

\* The operation stored last under key k, in document order.
LastOpWithKey(k) ==
    CHOOSE o \in OpPositions :
        /\ OpKey(o) = k
        /\ \A o2 \in OpPositions : OpKey(o2) = k => (o2 = o \/ LexLess(o2, o))

\* The "parameters" list of the operation's own path, if that key comes before
\* the operation in the path's dict, else no parameters.
CarriedTo(o) ==
    LET path_methods == openapi_spec.paths[o[1]][2]
        before == {i \in 1..(o[2] - 1) : path_methods[i][1] = "parameters"}
    IN  IF before = {} THEN <<>> ELSE path_methods[CHOOSE i \in before : TRUE][2]

\* The names of the parameters at a location that the path (so far) and the
\* operation declare.
DeclaredNames(o, location) ==
    {prm.name : prm \in {x \in Range(CarriedTo(o)) \cup
                               Range(RGet(OpSpec(o), "parameters", <<>>)) :
                            x.in = location}}

\* C3: an operation without operationId is reported and left out, the
\* conversion does not crash, and every other operation is in the output map.
C3_MissingIdIsReported ==
    /\ apc # "raised"
    /\ apc = "returned" =>
          DOMAIN functions = {OpKey(o) : o \in {x \in OpPositions : HasId(x)}}

\* C9: the "parameters" key of a path gives no output entry; its list reaches
\* the operations iterated after it under the same path, whose headers (params)
\* hold an entry for each path level and operation level parameter located in
\* header (query), and no operation of another path.
C9_CommonParametersCarried ==
    apc = "returned" =>
        /\ DOMAIN functions = {OpKey(o) : o \in OpPositions}
        /\ \A k \in DOMAIN functions :
              LET o == LastOpWithKey(k)
                  properties == functions[k].parameters.properties
              IN  /\ functions[k].name = <<"requests", OpMethod(o)>>
                  /\ functions[k].name # <<"requests", "parameters">>
                  /\ DOMAIN properties.headers = DeclaredNames(o, "header")
                  /\ DOMAIN properties.params = DeclaredNames(o, "query")

\* C9, reached: a post before "parameters", a get after it that also declares
\* parameters of its own, and a post of another path.
C9_Witness ==
    /\ apc = "returned"
    /\ Len(openapi_spec.paths) = 2
    /\ Len(openapi_spec.paths[1][2]) = 2
    /\ Len(openapi_spec.paths[2][2]) = 1
    /\ [i \in 1..2 |-> openapi_spec.paths[1][2][i][1]] = <<"parameters", "get">>
    /\ openapi_spec.paths[2][2][1][1] = "post"
    /\ DOMAIN functions = {<<"a", "_", "a">>, <<"B">>}
    /\ functions[<<"a", "_", "a">>].name = <<"requests", "get">>
    /\ DOMAIN functions[<<"a", "_", "a">>].parameters.properties.headers = {"X-Key"}
    /\ functions[<<"a", "_", "a">>].parameters.properties.headers["X-Key"].type = "integer"
    /\ DOMAIN functions[<<"a", "_", "a">>].parameters.properties.params = {"q", "limit"}
    /\ functions[<<"B">>].parameters.properties.headers = <<>>
    /\ functions[<<"B">>].parameters.properties.params = <<>>

\* C9, reached: under one path a post iterated before "parameters" and a get
\* iterated after it; only the get has the path level parameters.
C9_WitnessOrder ==
    /\ apc = "returned"
    /\ Len(openapi_spec.paths) = 1
    /\ Len(openapi_spec.paths[1][2]) = 3
    /\ [i \in 1..3 |-> openapi_spec.paths[1][2][i][1]] = <<"post", "parameters", "get">>
    /\ DOMAIN functions = {<<"a", "_", "a">>, <<"B">>}
    /\ functions[<<"B">>].name = <<"requests", "post">>
    /\ functions[<<"B">>].parameters.properties.headers = <<>>
    /\ DOMAIN functions[<<"a", "_", "a">>].parameters.properties.params = {"q", "limit"}

\* The operations all have an operationId, and the operationIds are pairwise
\* distinct strings.
DistinctOperationIds ==
    /\ \A o \in OpPositions : HasId(o)
    /\ \A o1, o2 \in OpPositions :
          o1 # o2 => OpSpec(o1).operationId # OpSpec(o2).operationId

\* C11: no operation is lost: when the operations all have operationIds that
\* are pairwise distinct strings, the returned map has exactly one entry per
\* operation, each operation's own function under its normalized operationId,
\* none overwritten by the function of another operation.
C11_NoOperationLost ==
    (apc = "returned" /\ DistinctOperationIds) =>
        /\ Cardinality(DOMAIN functions) = Cardinality(OpPositions)
        /\ \A o \in OpPositions :
              /\ OpKey(o) \in DOMAIN functions
              /\ functions[OpKey(o)] =
                    Function(openapi_spec.paths[o[1]][1], OpMethod(o), OpSpec(o),
                             CarriedTo(o))

====
